---- MODULE Spec2Model ----
(***************************************************************************)
(* A model of package kid (K-sortable IDs): the lock-protected generator   *)
(* getTS, the constructor New, and the unrolled base32 codec               *)
(* (encode / decode / UnmarshalText / FromString) with Compare, Sort, the  *)
(* accessors, FromBytes, Scan and the JSON methods.                        *)
(*                                                                         *)
(* Five specifications share the module:                                   *)
(*   Spec       callers run New concurrently, one step per statement group *)
(*   LiveSpec   the same with the wait for the mutex as a step, under the  *)
(*              fairness of the scheduler and of the mutex                 *)
(*   SerialSpec whole getTS calls one after the other, any clock readings  *)
(*   FrozenSpec whole getTS calls while the clock stands still             *)
(*   CodecSpec  the pure functions applied to enumerated inputs            *)
(***************************************************************************)
EXTENDS Integers, Sequences, FiniteSets, TLC

(***************************************************************************)
(* Bounds of the model.                                                    *)
(***************************************************************************)
NumCallers == 2
MaxCalls == 3
NumByteVals == 10
MaxLiveCalls == 2
MaxSortLen == 3
MaxFrozenCalls == 4100
MaxSerialCalls == 5

(***************************************************************************)
(* Program constants.                                                      *)
(***************************************************************************)
rawLen == 10
encodedLen == 16
maxByte == 255
nanoPerMilli == 1000000

\* the alphabet of RFC 4648, "ABCDEFGHIJKLMNOPQRSTUVWXYZ234567"
encoding_std ==
  << 65, 66, 67, 68, 69, 70, 71, 72, 73, 74, 75, 76, 77, 78, 79, 80,
     81, 82, 83, 84, 85, 86, 87, 88, 89, 90, 50, 51, 52, 53, 54, 55 >>
\* encoding = "0123456789bcdefghjklmnpqrstvwxyz", as code points
encoding ==
  << 48, 49, 50, 51, 52, 53, 54, 55, 56, 57,
     98, 99, 100, 101, 102, 103, 104,
     106, 107, 108, 109, 110,
     112, 113, 114, 115, 116,
     118, 119, 120, 121, 122 >>

Byte == 0..255

\* var nilID ID : the zero value of [10]byte
nilID == [i \in 1..rawLen |-> 0]

ErrInvalidID == "kid: invalid id"
NoErr == "nil"

(***************************************************************************)
(* Go integer operators on the values the code applies them to.            *)
(***************************************************************************)
\* x >> k on a signed integer (arithmetic shift: floor division by 2^k)
RECURSIVE Shr(_, _)
Shr(x, k) == IF k = 0 THEN x ELSE Shr(x \div 2, k - 1)

\* x << k without the truncation
RECURSIVE Shl8_wide(_, _)
Shl8_wide(x, k) == IF k = 0 THEN x ELSE Shl8_wide(2 * x, k - 1)
\* x << k on a byte: the result is truncated to 8 bits
RECURSIVE Shl8(_, _)
Shl8(x, k) == IF k = 0 THEN x % 256 ELSE Shl8((2 * x) % 256, k - 1)

\* x | y, bit by bit
RECURSIVE BitOr(_, _)
BitOr(x, y) ==
  IF x = 0 THEN y
  ELSE IF y = 0 THEN x
  ELSE (IF x % 2 = 1 \/ y % 2 = 1 THEN 1 ELSE 0) + 2 * BitOr(x \div 2, y \div 2)

\* x & y, bit by bit
RECURSIVE BitAnd(_, _)
BitAnd(x, y) ==
  IF x = 0 \/ y = 0 THEN 0
  ELSE (IF x % 2 = 1 /\ y % 2 = 1 THEN 1 ELSE 0) + 2 * BitAnd(x \div 2, y \div 2)

\* byte(x): conversion of an integer to uint8
ToByte(x) == x % 256

\* a / b on signed integers with b > 0: Go truncates toward zero
GoDiv(a, b) == IF a >= 0 THEN a \div b ELSE -((-a) \div b)

(***************************************************************************)
(* The generator: getTS and New.                                           *)
(***************************************************************************)
Callers == 1..NumCallers
NoCaller == 0

\* readings the clock timeNow().UnixNano() may give, in any order and any
\* number of times: before the epoch, the epoch, the end of the first 256ns
\* bucket, the last nanosecond of the first millisecond, and an instant in
\* a later millisecond (2147, sequence 1889) whose timestamp fills more
\* than one byte of the ID
NanoValues == {-1, 0, 255, 999999, 2147483647}

\* the two bytes crypto/rand may deliver
RandPairs == {<<0, 0>>, <<90, 199>>}

VARIABLES
  lastTime,   \* var lastTime int64
  timeMu,     \* var timeMu sync.Mutex: the caller holding it, or NoCaller
  pc,         \* where each caller is in New / getTS
  nano,       \* getTS local
  milli,      \* getTS named result
  seq,        \* getTS named result
  now,        \* getTS local
  ts,         \* New locals t, s: the pair getTS returned
  seen,       \* largest combined value New had returned when the caller took the lock
  issued,     \* the calls in the order getTS returned: the pair, then the ID of New
  call,       \* the codec call made last, its inputs and outputs, until discarded
  tally       \* the getTS calls made one after the other: how many, the last
              \* clock reading and result (see NoTally)

genVars == <<lastTime, timeMu, pc, nano, milli, seq, now, ts, seen, issued, tally>>
vars == <<lastTime, timeMu, pc, nano, milli, seq, now, ts, seen, issued, call, tally>>

\* calls: the getTS calls completed; clock: the nanoseconds the last call
\* read; milli, seq: the pair it returned; same: the calls that returned the
\* millisecond of the clock they read; maxNow: the largest clock-derived
\* milli<<12 + seq read so far, 0 if none was above 0
NoTally == [calls |-> 0, clock |-> 0, milli |-> 0, seq |-> 0, same |-> 0,
            maxNow |-> 0]

NoCall == [op |-> "none", a |-> nilID, b |-> nilID, text |-> <<>>,
           pre |-> nilID, id |-> nilID, str |-> <<>>, strb |-> <<>>,
           err |-> NoErr, cmp |-> 0, rev |-> 0,
           isNil |-> FALSE, isZero |-> FALSE, parts |-> <<>>,
           ids |-> <<>>, sorted |-> <<>>, kind |-> ""]

\* the state before the first call, with lastTime below the epoch
GenInit_before ==
  /\ lastTime = -1
  /\ timeMu = NoCaller
  /\ pc = [p \in Callers |-> "idle"]
  /\ nano = [p \in Callers |-> 0]
  /\ milli = [p \in Callers |-> 0]
  /\ seq = [p \in Callers |-> 0]
  /\ now = [p \in Callers |-> 0]
  /\ ts = [p \in Callers |-> <<0, 0>>]
  /\ seen = [p \in Callers |-> 0]
  /\ issued = <<>>
  /\ tally = NoTally
\* the state before the first call: lastTime is the zero value of int64
GenInit ==
  /\ lastTime = 0
  /\ timeMu = NoCaller
  /\ pc = [p \in Callers |-> "idle"]
  /\ nano = [p \in Callers |-> 0]
  /\ milli = [p \in Callers |-> 0]
  /\ seq = [p \in Callers |-> 0]
  /\ now = [p \in Callers |-> 0]
  /\ ts = [p \in Callers |-> <<0, 0>>]
  /\ seen = [p \in Callers |-> 0]
  /\ issued = <<>>
  /\ tally = NoTally

\* timeMu.Lock() blocks until the mutex is free
CanLock_always(p) == TRUE
\* a lock that keeps out only the caller that holds it
CanLock_notSelf(p) == timeMu # p
CanLock(p) == timeMu = NoCaller

\* the clock-derived values of getTS, lines 385-389
ClockMilli(n) == GoDiv(n, nanoPerMilli)
\* seq = nano - milli*nanoPerMilli
ClockSeq_raw(n) == n - ClockMilli(n) * nanoPerMilli
\* seq = (nano - milli*nanoPerMilli) >> 7
ClockSeq_shift7(n) == Shr(n - ClockMilli(n) * nanoPerMilli, 7)
ClockSeq(n) == Shr(n - ClockMilli(n) * nanoPerMilli, 8)
\* now := milli<<10 + seq
ClockNow_shift10(n) == ClockMilli(n) * 1024 + ClockSeq(n)
ClockNow(n) == ClockMilli(n) * 4096 + ClockSeq(n)

\* the test of line 390: the clock did not pass the last value returned
Stalled_strict(n, last) == n < last
Stalled(n, last) == n <= last

\* milli = now >> 13
TickMilli_wide(n) == Shr(n, 13)
\* milli = now >> 12 and seq = now & 0xfff, lines 392-393
TickMilli(n) == Shr(n, 12)
TickSeq_byte(n) == BitAnd(n, 255)
TickSeq(n) == BitAnd(n, 4095)

\* New with the two sequence bytes in little-endian order
PackTS_swapped(t, s) ==
  << ToByte(Shr(t, 40)), ToByte(Shr(t, 32)), ToByte(Shr(t, 24)),
     ToByte(Shr(t, 16)), ToByte(Shr(t, 8)), ToByte(t),
     ToByte(s), ToByte(Shr(s, 8)) >>
\* New, lines 101-109: timestamp in 6 bytes, sequence in 2 bytes, big endian
PackTS(t, s) ==
  << ToByte(Shr(t, 40)), ToByte(Shr(t, 32)), ToByte(Shr(t, 24)),
     ToByte(Shr(t, 16)), ToByte(Shr(t, 8)), ToByte(t),
     ToByte(Shr(s, 8)), ToByte(s) >>

InGetTS == {"compare", "store"}

\* milli*4096 + seq of a pair getTS returned
Combined(r) == r.milli * 4096 + r.seq

\* the calls of New that have returned their ID
Returned == {i \in 1..Len(issued) : issued[i].id # <<>>}

\* the largest combined value among the calls that have returned, 0 if none
MaxReturned ==
  IF Returned = {} THEN 0
  ELSE CHOOSE m \in {Combined(issued[i]) : i \in Returned} :
         \A i \in Returned : Combined(issued[i]) <= m

\* the number of New calls entered so far, by all callers together
Started == Len(issued) + Cardinality({q \in Callers : pc[q] \in InGetTS})

\* New is entered, getTS takes the lock and reads the clock:
\* nano := timeNow().UnixNano(); milli, seq and now are derived from it
getTS_Lock(p) ==
  /\ pc[p] = "idle"
  /\ Started < MaxCalls
  /\ CanLock(p)
  /\ timeMu' = p
  /\ seen' = [seen EXCEPT ![p] = MaxReturned]
  /\ \E n \in NanoValues :
       /\ nano' = [nano EXCEPT ![p] = n]
       /\ milli' = [milli EXCEPT ![p] = ClockMilli(n)]
       /\ seq' = [seq EXCEPT ![p] = ClockSeq(n)]
       /\ now' = [now EXCEPT ![p] = ClockNow(n)]
  /\ pc' = [pc EXCEPT ![p] = "compare"]
  /\ UNCHANGED <<lastTime, ts, issued, call, tally>>

\* if now <= lastTime { now = lastTime + 1; milli = now >> 12; seq = now & 0xfff }
getTS_compare(p) ==
  /\ pc[p] = "compare"
  /\ IF Stalled(now[p], lastTime)
     THEN LET n == lastTime + 1 IN
            /\ now' = [now EXCEPT ![p] = n]
            /\ milli' = [milli EXCEPT ![p] = TickMilli(n)]
            /\ seq' = [seq EXCEPT ![p] = TickSeq(n)]
     ELSE UNCHANGED <<now, milli, seq>>
  /\ nano' = [nano EXCEPT ![p] = 0]
  /\ pc' = [pc EXCEPT ![p] = "store"]
  /\ UNCHANGED <<lastTime, timeMu, ts, seen, issued, call, tally>>

\* getTS returning without the deferred timeMu.Unlock()
getTS_return_locked(p) ==
  /\ pc[p] = "store"
  /\ lastTime' = now[p]
  /\ ts' = [ts EXCEPT ![p] = <<milli[p], seq[p]>>]
  /\ issued' = Append(issued, [caller |-> p, milli |-> milli[p], seq |-> seq[p],
                                seen |-> seen[p], id |-> <<>>])
  /\ milli' = [milli EXCEPT ![p] = 0]
  /\ seq' = [seq EXCEPT ![p] = 0]
  /\ now' = [now EXCEPT ![p] = 0]
  /\ pc' = [pc EXCEPT ![p] = "pack"]
  /\ seen' = [seen EXCEPT ![p] = 0]
  /\ UNCHANGED <<timeMu, nano, call, tally>>
\* lastTime = now; return milli, seq; the deferred timeMu.Unlock() runs
getTS_return(p) ==
  /\ pc[p] = "store"
  /\ lastTime' = now[p]
  /\ timeMu' = NoCaller
  /\ ts' = [ts EXCEPT ![p] = <<milli[p], seq[p]>>]
  /\ issued' = Append(issued, [caller |-> p, milli |-> milli[p], seq |-> seq[p],
                                seen |-> seen[p], id |-> <<>>])
  /\ milli' = [milli EXCEPT ![p] = 0]
  /\ seq' = [seq EXCEPT ![p] = 0]
  /\ now' = [now EXCEPT ![p] = 0]
  /\ pc' = [pc EXCEPT ![p] = "pack"]
  /\ seen' = [seen EXCEPT ![p] = 0]
  /\ UNCHANGED <<nano, call, tally>>

\* New packs t and s, fills the two random bytes and returns the ID
New_return(p) ==
  /\ pc[p] = "pack"
  /\ \E r \in RandPairs :
       LET k == CHOOSE i \in 1..Len(issued) :
                  issued[i].caller = p /\ issued[i].id = <<>>
       IN  issued' = [issued EXCEPT ![k].id = PackTS(ts[p][1], ts[p][2]) \o r]
  /\ ts' = [ts EXCEPT ![p] = <<0, 0>>]
  /\ pc' = [pc EXCEPT ![p] = "idle"]
  /\ UNCHANGED <<lastTime, timeMu, nano, milli, seq, now, seen, call, tally>>

Init == GenInit /\ call = NoCall

Next ==
  \E p \in Callers :
    \/ getTS_Lock(p)
    \/ getTS_compare(p)
    \/ getTS_return(p)
    \/ New_return(p)

Spec == Init /\ [][Next]_vars

(***************************************************************************)
(* The generator with the wait for the mutex as a step of its own, and the *)
(* scheduling of the callers: a goroutine that can run does run, and       *)
(* sync.Mutex hands the lock to a waiter that is passed over repeatedly    *)
(* (starvation mode).                                                      *)
(***************************************************************************)
\* the callers blocked in timeMu.Lock()
Waiting == {q \in Callers : pc[q] = "lock"}

\* a caller enters New and getTS and reaches timeMu.Lock()
New_call(p) ==
  /\ pc[p] = "idle"
  /\ Started + Cardinality(Waiting) < MaxLiveCalls
  /\ pc' = [pc EXCEPT ![p] = "lock"]
  /\ UNCHANGED <<lastTime, timeMu, nano, milli, seq, now, ts, seen, issued, call, tally>>

\* timeMu.Lock() returns to a caller that was blocked in it, and the caller
\* reads the clock: nano := timeNow().UnixNano()
getTS_Acquire(p) ==
  /\ pc[p] = "lock"
  /\ CanLock(p)
  /\ timeMu' = p
  /\ seen' = [seen EXCEPT ![p] = MaxReturned]
  /\ \E n \in NanoValues :
       /\ nano' = [nano EXCEPT ![p] = n]
       /\ milli' = [milli EXCEPT ![p] = ClockMilli(n)]
       /\ seq' = [seq EXCEPT ![p] = ClockSeq(n)]
       /\ now' = [now EXCEPT ![p] = ClockNow(n)]
  /\ pc' = [pc EXCEPT ![p] = "compare"]
  /\ UNCHANGED <<lastTime, ts, issued, call, tally>>

LiveNext ==
  \E p \in Callers :
    \/ New_call(p)
    \/ getTS_Acquire(p)
    \/ getTS_compare(p)
    \/ getTS_return(p)
    \/ New_return(p)

Fairness ==
  \A p \in Callers :
    /\ SF_vars(getTS_Acquire(p))
    /\ WF_vars(getTS_compare(p))
    /\ WF_vars(getTS_return(p))
    /\ WF_vars(New_return(p))

LiveSpec == Init /\ [][LiveNext]_vars /\ Fairness

(***************************************************************************)
(* getTS as one step: the calls of callers that do not overlap, each from  *)
(* timeMu.Lock() to the deferred timeMu.Unlock().                          *)
(***************************************************************************)
\* now = lastTime + 4096
NextTick_milli(last) == last + 4096
\* now = lastTime + 1, line 391
NextTick(last) == last + 1

\* getTS returning the clock's values without the comparison with lastTime
getTS_unguarded(n, last) ==
  [milli |-> ClockMilli(n), seq |-> ClockSeq(n), now |-> ClockNow(n)]

\* getTS reading n nanoseconds from the clock with lastTime = last: the
\* pair it returns and the value it stores in lastTime
getTS(n, last) ==
  IF Stalled(ClockNow(n), last)
  THEN [milli |-> TickMilli(NextTick(last)), seq |-> TickSeq(NextTick(last)),
        now |-> NextTick(last)]
  ELSE [milli |-> ClockMilli(n), seq |-> ClockSeq(n), now |-> ClockNow(n)]

IntMax(a, b) == IF a >= b THEN a ELSE b

\* a whole getTS call that reads n nanoseconds from the clock
getTS_call(n) ==
  /\ CanLock(NoCaller)
  /\ LET r == getTS(n, lastTime) IN
       /\ lastTime' = r.now
       /\ tally' = [calls |-> tally.calls + 1,
                    clock |-> n,
                    milli |-> r.milli,
                    seq |-> r.seq,
                    same |-> tally.same + (IF r.milli = ClockMilli(n) THEN 1 ELSE 0),
                    maxNow |-> IntMax(tally.maxNow, ClockNow(n))]
  /\ UNCHANGED <<timeMu, pc, nano, milli, seq, now, ts, seen, issued, call>>

\* instants at which the clock stands still: the epoch, the last nanosecond
\* of millisecond 0, the first nanosecond of millisecond 1
FrozenNanos == {0, 999999, 1000000}

\* the clock is stopped at one of these instants before the first call
FrozenInit ==
  /\ lastTime = 0
  /\ timeMu = NoCaller
  /\ pc = [p \in Callers |-> "idle"]
  /\ nano = [p \in Callers |-> 0]
  /\ milli = [p \in Callers |-> 0]
  /\ seq = [p \in Callers |-> 0]
  /\ now = [p \in Callers |-> 0]
  /\ ts = [p \in Callers |-> <<0, 0>>]
  /\ seen = [p \in Callers |-> 0]
  /\ issued = <<>>
  /\ call = NoCall
  /\ \E n \in FrozenNanos : tally = [NoTally EXCEPT !.clock = n]

\* one more call while the clock stands still
getTS_frozen ==
  /\ tally.calls < MaxFrozenCalls
  /\ getTS_call(tally.clock)

FrozenSpec == FrozenInit /\ [][getTS_frozen]_vars

\* one more call, the clock reading anything
getTS_serial ==
  /\ tally.calls < MaxSerialCalls
  /\ \E n \in NanoValues : getTS_call(n)

SerialSpec == Init /\ [][getTS_serial]_vars

(***************************************************************************)
(* Accessors of an ID.                                                     *)
(***************************************************************************)
\* Timestamp(): the 48-bit big-endian value of bytes 0-5, kept as its high
\* and low 24-bit halves <<hi, lo>> (the value is hi * 2^24 + lo)
Timestamp(id) ==
  << id[1] * 65536 + id[2] * 256 + id[3], id[4] * 65536 + id[5] * 256 + id[6] >>

\* Sequence() reading bytes 6-7 in little-endian order
Sequence_le(id) == id[8] * 256 + id[7]
\* Sequence(): the 16-bit big-endian value of bytes 6-7
Sequence(id) == id[7] * 256 + id[8]

\* Random(): the 16-bit big-endian value of bytes 8-9
Random(id) == id[9] * 256 + id[10]

\* order of two 48-bit values held as halves
TSLess(x, y) == x[1] < y[1] \/ (x[1] = y[1] /\ x[2] < y[2])

(***************************************************************************)
(* The codec: encode, decode, UnmarshalText, FromString, String, Compare.  *)
(* A string is the sequence of its bytes.                                  *)
(***************************************************************************)
\* encoding[i] for a 0-based index i
enc(i) == encoding[i + 1]

\* the characters of the alphabet
Alphabet == {encoding[i] : i \in 1..Len(encoding)}

\* init(): dec[c] is the 5-bit value of character c, maxByte for any other byte
dec_zero == [c \in Byte |->
          IF c \in Alphabet
          THEN (CHOOSE i \in 1..Len(encoding) : encoding[i] = c) - 1
          ELSE 0]
dec == [c \in Byte |->
          IF c \in Alphabet
          THEN (CHOOSE i \in 1..Len(encoding) : encoding[i] = c) - 1
          ELSE maxByte]

\* encode(dst, id): the 16 characters written to dst
encode(id) ==
  LET b(k) == id[k + 1] IN
  << enc(Shr(b(0), 3)),
     enc(BitOr(BitAnd(Shr(b(1), 6), 31), BitAnd(Shl8(b(0), 2), 31))),
     enc(BitAnd(Shr(b(1), 1), 31)),
     enc(BitOr(BitAnd(Shr(b(2), 4), 31), BitAnd(Shl8(b(1), 4), 31))),
     enc(BitOr(Shr(b(3), 7), BitAnd(Shl8(b(2), 1), 31))),
     enc(BitAnd(Shr(b(3), 2), 31)),
     enc(BitOr(Shr(b(4), 5), BitAnd(Shl8(b(3), 3), 31))),
     enc(BitAnd(b(4), 31)),
     enc(Shr(b(5), 3)),
     enc(BitOr(BitAnd(Shr(b(6), 6), 31), BitAnd(Shl8(b(5), 2), 31))),
     enc(BitAnd(Shr(b(6), 1), 31)),
     enc(BitOr(BitAnd(Shr(b(7), 4), 31), BitAnd(Shl8(b(6), 4), 31))),
     enc(BitOr(Shr(b(8), 7), BitAnd(Shl8(b(7), 1), 31))),
     enc(BitAnd(Shr(b(8), 2), 31)),
     enc(BitOr(Shr(b(9), 5), BitAnd(Shl8(b(8), 3), 31))),
     enc(BitAnd(b(9), 31)) >>

\* String(): the 16 characters of encode
String(id) == encode(id)

\* decode(id, src) with byte 8 taking one bit too many from src[14]
decode_shift(id, src) ==
  LET d(k) == dec[src[k + 1]]
      id9 == BitOr(Shl8(d(14), 5), d(15))
  IN  IF enc(BitAnd(id9, 31)) # src[16]
      THEN [ok |-> FALSE, id |-> [id EXCEPT ![10] = id9]]
      ELSE [ok |-> TRUE,
            id |-> << BitOr(Shl8(d(0), 3), Shr(d(1), 2)),
                      BitOr(BitOr(Shl8(d(1), 6), Shl8(d(2), 1)), Shr(d(3), 4)),
                      BitOr(Shl8(d(3), 4), Shr(d(4), 1)),
                      BitOr(BitOr(Shl8(d(4), 7), Shl8(d(5), 2)), Shr(d(6), 3)),
                      BitOr(Shl8(d(6), 5), d(7)),
                      BitOr(Shl8(d(8), 3), Shr(d(9), 2)),
                      BitOr(BitOr(Shl8(d(9), 6), Shl8(d(10), 1)), Shr(d(11), 4)),
                      BitOr(Shl8(d(11), 4), Shr(d(12), 1)),
                      BitOr(BitOr(Shl8(d(12), 7), Shl8(d(13), 2)), Shr(d(14), 2)),
                      id9 >>]

\* decode(id, src) checking the last character against 4 bits of byte 9
decode_mask(id, src) ==
  LET d(k) == dec[src[k + 1]]
      id9 == BitOr(Shl8(d(14), 5), d(15))
  IN  IF enc(BitAnd(id9, 15)) # src[16]
      THEN [ok |-> FALSE, id |-> [id EXCEPT ![10] = id9]]
      ELSE [ok |-> TRUE,
            id |-> << BitOr(Shl8(d(0), 3), Shr(d(1), 2)),
                      BitOr(BitOr(Shl8(d(1), 6), Shl8(d(2), 1)), Shr(d(3), 4)),
                      BitOr(Shl8(d(3), 4), Shr(d(4), 1)),
                      BitOr(BitOr(Shl8(d(4), 7), Shl8(d(5), 2)), Shr(d(6), 3)),
                      BitOr(Shl8(d(6), 5), d(7)),
                      BitOr(Shl8(d(8), 3), Shr(d(9), 2)),
                      BitOr(BitOr(Shl8(d(9), 6), Shl8(d(10), 1)), Shr(d(11), 4)),
                      BitOr(Shl8(d(11), 4), Shr(d(12), 1)),
                      BitOr(BitOr(Shl8(d(12), 7), Shl8(d(13), 2)), Shr(d(14), 3)),
                      id9 >>]

\* decode(id, src): the result and the ID it leaves in *id; byte 9 is
\* written before the check of the last character
decode(id, src) ==
  LET d(k) == dec[src[k + 1]]
      id9 == BitOr(Shl8(d(14), 5), d(15))
  IN  IF enc(BitAnd(id9, 31)) # src[16]
      THEN [ok |-> FALSE, id |-> [id EXCEPT ![10] = id9]]
      ELSE [ok |-> TRUE,
            id |-> << BitOr(Shl8(d(0), 3), Shr(d(1), 2)),
                      BitOr(BitOr(Shl8(d(1), 6), Shl8(d(2), 1)), Shr(d(3), 4)),
                      BitOr(Shl8(d(3), 4), Shr(d(4), 1)),
                      BitOr(BitOr(Shl8(d(4), 7), Shl8(d(5), 2)), Shr(d(6), 3)),
                      BitOr(Shl8(d(6), 5), d(7)),
                      BitOr(Shl8(d(8), 3), Shr(d(9), 2)),
                      BitOr(BitOr(Shl8(d(9), 6), Shl8(d(10), 1)), Shr(d(11), 4)),
                      BitOr(Shl8(d(11), 4), Shr(d(12), 1)),
                      BitOr(BitOr(Shl8(d(12), 7), Shl8(d(13), 2)), Shr(d(14), 3)),
                      id9 >>]

\* UnmarshalText decoding before it validates the characters
UnmarshalText_decodeFirst(id, text) ==
  IF Len(text) # encodedLen
  THEN [id |-> id, err |-> ErrInvalidID]
  ELSE LET r == decode(id, text) IN
         IF \E i \in 1..Len(text) : dec[text[i]] = maxByte
         THEN [id |-> r.id, err |-> ErrInvalidID]
         ELSE IF ~ r.ok
              THEN [id |-> nilID, err |-> ErrInvalidID]
              ELSE [id |-> r.id, err |-> NoErr]

\* UnmarshalText setting the receiver to the nil ID on every failure
UnmarshalText_reset(id, text) ==
  IF Len(text) # encodedLen
  THEN [id |-> nilID, err |-> ErrInvalidID]
  ELSE IF \E i \in 1..Len(text) : dec[text[i]] = maxByte
       THEN [id |-> nilID, err |-> ErrInvalidID]
       ELSE LET r == decode(id, text) IN
              IF ~ r.ok
              THEN [id |-> nilID, err |-> ErrInvalidID]
              ELSE [id |-> r.id, err |-> NoErr]
\* (id *ID).UnmarshalText(text): the receiver after the call and the error
UnmarshalText(id, text) ==
  IF Len(text) # encodedLen
  THEN [id |-> id, err |-> ErrInvalidID]
  ELSE IF \E i \in 1..Len(text) : dec[text[i]] = maxByte
       THEN [id |-> id, err |-> ErrInvalidID]
       ELSE LET r == decode(id, text) IN
              IF ~ r.ok
              THEN [id |-> nilID, err |-> ErrInvalidID]
              ELSE [id |-> r.id, err |-> NoErr]

\* fmt.Errorf("kid: scanning unsupported type: %T", value)
ErrScanType(kind) ==
  CASE kind = "int" -> "kid: scanning unsupported type: int"
    [] kind = "int64" -> "kid: scanning unsupported type: int64"
    [] kind = "bool" -> "kid: scanning unsupported type: bool"
    [] kind = "float64" -> "kid: scanning unsupported type: float64"

\* (id *ID).Scan(value) for a value of dynamic type kind; val is its
\* content when it is a string or a []byte
Scan(id, kind, val) ==
  IF kind \in {"string", "[]uint8"} THEN UnmarshalText(id, val)
  ELSE IF kind = "nil" THEN [id |-> nilID, err |-> NoErr]
  ELSE [id |-> id, err |-> ErrScanType(kind)]

\* FromString(str): id := &ID{}; err := id.UnmarshalText([]byte(str))
FromString(str) == UnmarshalText(nilID, str)

\* bytes.Compare and the comparison of Go strings: lexicographic on bytes,
\* a proper prefix is smaller
RECURSIVE bytesCompare(_, _)
bytesCompare(x, y) ==
  IF x = <<>> /\ y = <<>> THEN 0
  ELSE IF x = <<>> THEN -1
  ELSE IF y = <<>> THEN 1
  ELSE IF Head(x) < Head(y) THEN -1
  ELSE IF Head(x) > Head(y) THEN 1
  ELSE bytesCompare(Tail(x), Tail(y))

\* Compare over the 2 sequence bytes
Compare_seq(id, other) == bytesCompare(SubSeq(id, 7, 8), SubSeq(other, 7, 8))
\* Compare over all 10 bytes
Compare_full(id, other) == bytesCompare(id, other)
\* Compare over the 6 timestamp bytes
Compare_ts(id, other) == bytesCompare(SubSeq(id, 1, 6), SubSeq(other, 1, 6))
\* id.Compare(other): bytes.Compare(id[:8], other[:8])
Compare(id, other) == bytesCompare(SubSeq(id, 1, 8), SubSeq(other, 1, 8))

\* the JSON literal null, and the double quote
nullText == <<110, 117, 108, 108>>
quote == 34

\* MarshalJSON without the special case of the nil ID
MarshalJSON_quoted(id) ==
  [text |-> <<quote>> \o encode(id) \o <<quote>>, err |-> NoErr]
\* id.MarshalJSON(): the bytes and the error it returns
MarshalJSON(id) ==
  IF id = nilID
  THEN [text |-> nullText, err |-> NoErr]
  ELSE [text |-> <<quote>> \o encode(id) \o <<quote>>, err |-> NoErr]

\* (id *ID).UnmarshalJSON(b): the receiver after the call and the error
UnmarshalJSON(id, b) ==
  IF b = nullText
  THEN [id |-> nilID, err |-> NoErr]
  ELSE IF Len(b) < 2
       THEN [id |-> id, err |-> ErrInvalidID]
       ELSE UnmarshalText(id, SubSeq(b, 2, Len(b) - 1))

\* sorter.Len(), sorter.Less(i, j) and sorter.Swap(i, j), indices from 0
sorterLen(s) == Len(s)
Less_reversed(s, i, j) == Compare(s[i + 1], s[j + 1]) > 0
Less(s, i, j) == Compare(s[i + 1], s[j + 1]) < 0
Swap(s, i, j) == [s EXCEPT ![i + 1] = s[j + 1], ![j + 1] = s[i + 1]]

\* sort.Sort on a slice of at most 12 elements is an insertion sort:
\*   for i := 1; i < n; i++ {
\*     for j := i; j > 0 && data.Less(j, j-1); j-- { data.Swap(j, j-1) } }
RECURSIVE insertInner(_, _)
insertInner(s, j) ==
  IF j > 0 /\ Less(s, j, j - 1)
  THEN insertInner(Swap(s, j, j - 1), j - 1)
  ELSE s

RECURSIVE insertionSort(_, _)
insertionSort(s, i) ==
  IF i < sorterLen(s) THEN insertionSort(insertInner(s, i), i + 1) ELSE s

\* Sort(ids): sort.Sort(sorter(ids)); the slice after the call
Sort(ids) == insertionSort(ids, 1)

\* copy(id[:], b): the first min(rawLen, len(b)) bytes of b over a zero ID
CopyInto(b) == [i \in 1..rawLen |-> IF i <= Len(b) THEN b[i] ELSE 0]

\* FromBytes returning the copied bytes along with the error
FromBytes_copyFirst(b) ==
  IF Len(b) # rawLen
  THEN [id |-> CopyInto(b), err |-> ErrInvalidID]
  ELSE [id |-> CopyInto(b), err |-> NoErr]
\* FromBytes(b): the ID and the error it returns
FromBytes(b) ==
  IF Len(b) # rawLen
  THEN [id |-> nilID, err |-> ErrInvalidID]
  ELSE [id |-> CopyInto(b), err |-> NoErr]

\* id.Bytes(): id[:]
Bytes(id) == id

\* IsNil comparing the timestamp and the sequence only
IsNil_prefix(id) == SubSeq(id, 1, 8) = SubSeq(nilID, 1, 8)
\* id.IsNil(): id == nilID
IsNil(id) == id = nilID

\* id.IsZero(): return id.IsNil()
IsZero(id) == IsNil(id)

(***************************************************************************)
(* The inputs the codec calls are applied to.                              *)
(***************************************************************************)
maxID == [i \in 1..rawLen |-> 255]
\* ID{0x1, 0x95, 0x76, 0xe1, 0x3d, 0xae, 0x0, 0x98, 0x7a, 0xe5}
sampleID == <<1, 149, 118, 225, 61, 174, 0, 152, 122, 229>>
BaseIDs == {nilID, maxID, sampleID}

\* byte values: all zero, all one, each single bit, mixed patterns
SampleBytes == <<0, 255, 1, 128, 2, 64, 4, 32, 8, 16, 85, 170, 31, 224>>
ByteVals == {SampleBytes[i] : i \in 1..NumByteVals}

\* a base ID and every ID that differs from it in a single byte
Edits(x) == {x} \cup {[x EXCEPT ![i] = v] : i \in 1..rawLen, v \in ByteVals}
IDInputs == UNION {Edits(x) : x \in BaseIDs}

\* pairs of IDs: two variants of one base ID, or a base ID and any input
IDPairs ==
  UNION {Edits(x) \X Edits(x) : x \in BaseIDs}
  \cup (BaseIDs \X IDInputs) \cup (IDInputs \X BaseIDs)

\* characters next to and inside the gaps of the alphabet, upper case,
\* and bytes that are no ASCII letters or digits
OtherChars == {47, 58, 97, 105, 111, 117, 123, 66, 72, 90, 32, 0, 128, 255}
CharVals == Alphabet \cup OtherChars

\* "06BQER9XNR09HYQ5", "o6bqer9xnr09hyq5", "06bqer9"
upperText == <<48, 54, 66, 81, 69, 82, 57, 88, 78, 82, 48, 57, 72, 89, 81, 53>>
vowelText == <<111, 54, 98, 113, 101, 114, 57, 120, 110, 114, 48, 57, 104, 121, 113, 53>>
shortText == <<48, 54, 98, 113, 101, 114, 57>>

BaseTexts == {String(x) : x \in BaseIDs}

\* the base strings, every string that differs from one in a single
\* character, their prefixes, and longer strings
TextInputs ==
  BaseTexts
  \cup {[t EXCEPT ![i] = c] : t \in BaseTexts, i \in 1..encodedLen, c \in CharVals}
  \cup {SubSeq(t, 1, n) : t \in BaseTexts, n \in 0..(encodedLen - 1)}
  \cup {t \o <<c>> : t \in BaseTexts, c \in {48, 97}}
  \cup {t \o t : t \in BaseTexts}
  \cup {upperText, vowelText, shortText}

\* byte slices: the bytes of every ID, their prefixes, and longer slices
ByteInputs ==
  IDInputs
  \cup {SubSeq(x, 1, n) : x \in BaseIDs, n \in 0..(rawLen - 1)}
  \cup {x \o <<v>> : x \in BaseIDs, v \in ByteVals}
  \cup {x \o y : x \in BaseIDs, y \in BaseIDs}

\* IDs to sort: two that differ only in their random bytes among them
SortIDs ==
  {nilID, sampleID, [sampleID EXCEPT ![10] = 0], [sampleID EXCEPT ![8] = 0], maxID}

\* every slice of at most MaxSortLen of these IDs, repetitions included
SortInputs == UNION {[1..n -> SortIDs] : n \in 0..MaxSortLen}

\* "123456789012345678", a JSON number of 18 digits
longNumber == <<49, 50, 51, 52, 53, 54, 55, 56, 57, 48, 49, 50, 51, 52, 53, 54, 55, 56>>

\* JSON inputs: null, the text inputs in double quotes, the base strings
\* with other first and last bytes or none, very short inputs, and numbers
JSONInputs ==
  {nullText}
  \cup {<<quote>> \o t \o <<quote>> : t \in TextInputs}
  \cup {<<c>> \o t \o <<d>> : t \in BaseTexts, c \in {quote, 39, 48}, d \in {quote, 39, 48}}
  \cup BaseTexts
  \cup {<<>>, <<quote>>, <<quote, quote>>, <<48>>, <<49, 50>>, <<110, 117, 108>>,
        <<78, 85, 76, 76>>, longNumber}

\* values handed to Scan: strings and byte slices, valid and invalid,
\* nil, and values of types Scan does not support
ScanTexts == BaseTexts \cup {upperText, vowelText, shortText, <<>>, <<48>>}
ScanInputs ==
  ({"string", "[]uint8"} \X ScanTexts)
  \cup ({"nil", "int", "int64", "bool", "float64"} \X {<<>>})

\* id.String()
String_call ==
  /\ call.op = "none"
  /\ \E x \in IDInputs :
       call' = [NoCall EXCEPT !.op = "String", !.a = x, !.str = String(x)]
  /\ UNCHANGED genVars

\* FromString(s)
FromString_call ==
  /\ call.op = "none"
  /\ \E s \in TextInputs :
       LET r == FromString(s) IN
         call' = [NoCall EXCEPT !.op = "FromString", !.text = s,
                                !.id = r.id, !.err = r.err]
  /\ UNCHANGED genVars

\* x.UnmarshalText(s) on a receiver that holds x before the call
UnmarshalText_call ==
  /\ call.op = "none"
  /\ \E x \in BaseIDs, s \in TextInputs :
       LET r == UnmarshalText(x, s) IN
         call' = [NoCall EXCEPT !.op = "UnmarshalText", !.pre = x, !.text = s,
                                !.id = r.id, !.err = r.err]
  /\ UNCHANGED genVars

\* x.Compare(y) and y.Compare(x), together with x.String() and y.String()
Compare_call ==
  /\ call.op = "none"
  /\ \E p \in IDPairs :
       call' = [NoCall EXCEPT !.op = "Compare", !.a = p[1], !.b = p[2],
                              !.str = String(p[1]), !.strb = String(p[2]),
                              !.cmp = Compare(p[1], p[2]),
                              !.rev = Compare(p[2], p[1])]
  /\ UNCHANGED genVars

\* x.IsNil() and x.IsZero(), together with x.String()
IsNil_call ==
  /\ call.op = "none"
  /\ \E x \in IDInputs :
       call' = [NoCall EXCEPT !.op = "IsNil", !.a = x, !.str = String(x),
                              !.isNil = IsNil(x), !.isZero = IsZero(x)]
  /\ UNCHANGED genVars

\* x.Timestamp(), x.Sequence() and x.Random()
Accessors_call ==
  /\ call.op = "none"
  /\ \E x \in IDInputs :
       call' = [NoCall EXCEPT !.op = "Accessors", !.a = x,
                              !.parts = <<Timestamp(x), Sequence(x), Random(x)>>]
  /\ UNCHANGED genVars

\* FromBytes(b)
FromBytes_call ==
  /\ call.op = "none"
  /\ \E b \in ByteInputs :
       LET r == FromBytes(b) IN
         call' = [NoCall EXCEPT !.op = "FromBytes", !.text = b,
                                !.id = r.id, !.err = r.err]
  /\ UNCHANGED genVars

\* Sort(ids)
Sort_call ==
  /\ call.op = "none"
  /\ \E ids \in SortInputs :
       call' = [NoCall EXCEPT !.op = "Sort", !.ids = ids, !.sorted = Sort(ids)]
  /\ UNCHANGED genVars

\* x.MarshalJSON()
MarshalJSON_call ==
  /\ call.op = "none"
  /\ \E x \in IDInputs :
       LET r == MarshalJSON(x) IN
         call' = [NoCall EXCEPT !.op = "MarshalJSON", !.a = x,
                                !.text = r.text, !.err = r.err]
  /\ UNCHANGED genVars

\* x.UnmarshalJSON(b) on a receiver that holds x before the call
UnmarshalJSON_call ==
  /\ call.op = "none"
  /\ \E x \in BaseIDs, b \in JSONInputs :
       LET r == UnmarshalJSON(x, b) IN
         call' = [NoCall EXCEPT !.op = "UnmarshalJSON", !.pre = x, !.text = b,
                                !.id = r.id, !.err = r.err]
  /\ UNCHANGED genVars

\* x.Scan(value) on a receiver that holds x before the call
Scan_call ==
  /\ call.op = "none"
  /\ \E x \in BaseIDs, v \in ScanInputs :
       LET r == Scan(x, v[1], v[2]) IN
         call' = [NoCall EXCEPT !.op = "Scan", !.pre = x, !.kind = v[1],
                                !.text = v[2], !.id = r.id, !.err = r.err]
  /\ UNCHANGED genVars

\* the caller is done with the result of the last call
Discard_call ==
  /\ call.op # "none"
  /\ call' = NoCall
  /\ UNCHANGED genVars

CodecNext ==
  \/ String_call
  \/ FromString_call
  \/ UnmarshalText_call
  \/ Compare_call
  \/ IsNil_call
  \/ Accessors_call
  \/ FromBytes_call
  \/ Sort_call
  \/ MarshalJSON_call
  \/ UnmarshalJSON_call
  \/ Scan_call
  \/ Discard_call

CodecSpec == Init /\ [][CodecNext]_vars

(***************************************************************************)
(* Claims about the generator.                                             *)
(***************************************************************************)
\* C1: every getTS call returns a pair whose combined value milli*4096 + seq
\* is strictly greater than the one of every call that took the lock before
\* it, and a New call that starts after another New call returned gets a
\* strictly greater value, whatever the clock reads.
C1_StrictlyGreater ==
  /\ \A i, j \in 1..Len(issued) :
       i < j => Combined(issued[i]) < Combined(issued[j])
  /\ \A j \in 1..Len(issued) : issued[j].seen < Combined(issued[j])

\* getTS returned a value read from the clock to one caller and then, the
\* clock not having passed it, the next value to another caller; and a New
\* call that began after another one had returned has itself returned
C1_Witness ==
  /\ \E i \in 1..(Len(issued) - 1) :
       /\ issued[i].caller # issued[i + 1].caller
       /\ Combined(issued[i]) \in {ClockNow(n) : n \in NanoValues}
       /\ Combined(issued[i + 1]) = Combined(issued[i]) + 1
  /\ \E j \in Returned : issued[j].seen >= 1

\* C2: no two IDs returned by New, by whichever callers, have the same
\* (Timestamp(), Sequence()) pair, i.e. the same first 8 bytes.
C2_NoDuplicatePairs ==
  \A i, j \in Returned :
    i # j =>
      /\ <<Timestamp(issued[i].id), Sequence(issued[i].id)>>
           # <<Timestamp(issued[j].id), Sequence(issued[j].id)>>
      /\ SubSeq(issued[i].id, 1, 8) # SubSeq(issued[j].id, 1, 8)

\* two callers returned IDs, one of them twice, and two IDs of different
\* callers carry the same timestamp and the same random bytes
C2_Witness ==
  /\ Cardinality(Returned) >= 3
  /\ \E i, j \in Returned :
       /\ i # j
       /\ issued[i].caller # issued[j].caller
       /\ Timestamp(issued[i].id) = Timestamp(issued[j].id)
       /\ SubSeq(issued[i].id, 9, 10) = SubSeq(issued[j].id, 9, 10)

\* C3: of two IDs returned to the same caller one after the other, the
\* later has a Timestamp() that is not smaller, and when the timestamps are
\* equal its Sequence() is strictly greater.
C3_SameCallerOrdered ==
  \A i, j \in Returned :
    (i < j /\ issued[i].caller = issued[j].caller) =>
      /\ ~ TSLess(Timestamp(issued[j].id), Timestamp(issued[i].id))
      /\ Timestamp(issued[i].id) = Timestamp(issued[j].id)
           => Sequence(issued[i].id) < Sequence(issued[j].id)

\* one caller got two IDs with equal timestamps, the second with a sequence
\* beyond the clock's range, and another caller got an ID between them
C3_Witness ==
  \E i, k, j \in Returned :
    /\ i < k /\ k < j
    /\ issued[i].caller = issued[j].caller
    /\ issued[k].caller # issued[i].caller
    /\ Timestamp(issued[i].id) = Timestamp(issued[j].id)
    /\ Sequence(issued[j].id) > 3906

(***************************************************************************)
(* Claims about the codec.                                                 *)
(***************************************************************************)
\* C4: for every 10-byte ID x, FromString(x.String()) returns x and a nil
\* error.
C4_DecodeOfEncode ==
  call.op = "String" =>
    FromString(call.str) = [id |-> call.a, err |-> NoErr]

\* String() was applied to an ID that is neither all zeros nor all ones and
\* has a set bit in each of the last two bytes
C4_Witness ==
  /\ call.op = "String"
  /\ call.a \notin {nilID, maxID}
  /\ call.a[9] # 0 /\ call.a[10] # 0
  /\ Len(call.str) = encodedLen

\* C5: for every string s that FromString accepts, String() of the ID it
\* returns is s again.
C5_EncodeOfDecode ==
  (call.op = "FromString" /\ call.err = NoErr) => String(call.id) = call.text

\* FromString accepted a string whose last-but-one character carries bits
\* of both byte 8 and byte 9
C5_Witness ==
  /\ call.op = "FromString"
  /\ call.err = NoErr
  /\ dec[call.text[15]] \in {9, 18, 31}
  /\ call.id \notin BaseIDs

\* C6: FromString returns ErrInvalidID for every string whose length is not
\* 16 and for every 16-character string with a character outside the
\* alphabet 0123456789bcdefghjklmnpqrstvwxyz (a, i, o, u and upper case
\* included).
C6_Rejects ==
  (/\ call.op = "FromString"
   /\ \/ Len(call.text) # 16
      \/ \E i \in 1..Len(call.text) : call.text[i] \notin Alphabet)
  => call.err = ErrInvalidID

\* FromString was given a 16-character string whose only character outside
\* the alphabet is a vowel or an upper-case letter
C6_Witness ==
  /\ call.op = "FromString"
  /\ Len(call.text) = 16
  /\ Cardinality({i \in 1..16 : call.text[i] \notin Alphabet}) = 1
  /\ \E i \in 1..16 : call.text[i] \in {97, 105, 111, 117, 66, 72, 90}
  /\ call.err = ErrInvalidID

\* C7: whenever FromString returns an error, the ID it returns is the
\* all-zero nil ID.
C7_ErrorGivesNil ==
  (call.op = "FromString" /\ call.err # NoErr) => call.id = nilID

\* FromString failed on a 16-character string whose first 15 characters
\* are valid and not all '0'
C7_Witness ==
  /\ call.op = "FromString"
  /\ call.err # NoErr
  /\ Len(call.text) = 16
  /\ \A i \in 1..15 : call.text[i] \in Alphabet
  /\ \E i \in 1..15 : call.text[i] # 48

\* C8: whenever UnmarshalText returns an error, the receiver is the nil ID
\* after the call, whatever it held before.
C8_ReceiverNilOnError ==
  (call.op = "UnmarshalText" /\ call.err # NoErr) => call.id = nilID

\* C9: the byte-wise comparison of all 10 bytes of two IDs has the sign of
\* the lexicographic comparison of their strings, and the alphabet symbols
\* are in strictly increasing code-point order.
C9_OrderPreserved ==
  /\ \A i, j \in 1..Len(encoding) : i < j => encoding[i] < encoding[j]
  /\ call.op = "Compare" =>
       bytesCompare(call.a, call.b) = bytesCompare(call.str, call.strb)

\* two IDs that first differ in one byte and differ the other way round in
\* a later byte
C9_Witness ==
  /\ call.op = "Compare"
  /\ \E i, j \in 1..rawLen :
       /\ i < j
       /\ \A k \in 1..(i - 1) : call.a[k] = call.b[k]
       /\ call.a[i] < call.b[i]
       /\ call.a[j] > call.b[j]
  /\ bytesCompare(call.str, call.strb) = -1

\* C10 as stated: for all pairs of IDs the sign of a.Compare(b) is the sign
\* of the lexicographic comparison of a.String() with b.String().
C10_CompareIsStringOrder ==
  call.op = "Compare" => call.cmp = bytesCompare(call.str, call.strb)

\* C10 amended: when the first 8 bytes of a and b differ, a.Compare(b) has
\* the sign of the comparison of a.String() with b.String(); when they are
\* equal a.Compare(b) is 0, whatever the strings are.
C10_CompareOnPrefix ==
  call.op = "Compare" =>
    IF SubSeq(call.a, 1, 8) # SubSeq(call.b, 1, 8)
    THEN call.cmp = bytesCompare(call.str, call.strb)
    ELSE call.cmp = 0

\* two IDs whose first 8 bytes order them one way and whose random bytes
\* order them the other way
C10_Witness ==
  /\ call.op = "Compare"
  /\ call.cmp = 1
  /\ bytesCompare(SubSeq(call.a, 9, 10), SubSeq(call.b, 9, 10)) = -1

\* the first 8 bytes of an ID as a 64-bit big-endian unsigned integer, kept
\* as the digits <<bytes 0-2, bytes 3-5, bytes 6-7>> of the value
\* d[1] * 2^40 + d[2] * 2^16 + d[3]
Uint64Digits(id) == <<Timestamp(id)[1], Timestamp(id)[2], Sequence(id)>>

\* the sign of x - y for two 64-bit values given by their digits
NumCompare(x, y) ==
  IF x[1] # y[1] THEN (IF x[1] < y[1] THEN -1 ELSE 1)
  ELSE IF x[2] # y[2] THEN (IF x[2] < y[2] THEN -1 ELSE 1)
  ELSE IF x[3] # y[3] THEN (IF x[3] < y[3] THEN -1 ELSE 1)
  ELSE 0

\* an ID with the first 8 bytes of x and the last 2 bytes of y
WithRandomOf(x, y) == SubSeq(x, 1, 8) \o SubSeq(y, 9, 10)

\* C11: a.Compare(b) is -1, 0 or +1 as the numeric comparison of the first
\* 8 bytes of a and b read as 64-bit big-endian unsigned integers; the last
\* 2 bytes never change the result, two IDs that differ only in them
\* compare as 0; and a.Compare(b) = -b.Compare(a).
C11_CompareNumeric ==
  call.op = "Compare" =>
    /\ call.cmp \in {-1, 0, 1}
    /\ call.cmp = NumCompare(Uint64Digits(call.a), Uint64Digits(call.b))
    /\ \A r \in BaseIDs :
         /\ Compare(WithRandomOf(call.a, r), call.b) = call.cmp
         /\ Compare(call.a, WithRandomOf(call.b, r)) = call.cmp
    /\ SubSeq(call.a, 1, 8) = SubSeq(call.b, 1, 8) => call.cmp = 0
    /\ call.cmp = - call.rev

\* two IDs with the same timestamp, the first with the larger sequence in
\* its low byte and the smaller random bytes, compared as +1 and, the other
\* way round, as -1
C11_Witness ==
  /\ call.op = "Compare"
  /\ Timestamp(call.a) = Timestamp(call.b)
  /\ call.a[7] = call.b[7] /\ call.a[8] > call.b[8]
  /\ bytesCompare(SubSeq(call.a, 9, 10), SubSeq(call.b, 9, 10)) = -1
  /\ call.cmp = 1 /\ call.rev = -1

\* "0000000000000000"
zeroText == [i \in 1..encodedLen |-> 48]

\* C12: IsNil() and IsZero() are true for the all-zero ID and false for
\* every other 10-byte value, and the all-zero ID encodes to
\* "0000000000000000".
C12_NilSentinel ==
  /\ call.op = "IsNil" =>
       /\ call.isNil = (\A i \in 1..rawLen : call.a[i] = 0)
       /\ call.isZero = call.isNil
       /\ call.isNil => call.str = zeroText
  /\ IsNil(nilID) /\ IsZero(nilID) /\ String(nilID) = zeroText

\* IsNil() was false on an ID whose only set bit is the lowest bit of the
\* last random byte
C12_Witness ==
  /\ call.op = "IsNil"
  /\ call.a = [nilID EXCEPT ![rawLen] = 1]
  /\ ~ call.isNil /\ ~ call.isZero
  /\ call.str # zeroText

\* the three bytes of a 24-bit value, most significant first
Bytes3(v) == << v \div 65536, (v \div 256) % 256, v % 256 >>
\* the two bytes of a 16-bit value, most significant first
Bytes2(v) == << v \div 256, v % 256 >>

\* C15: Timestamp() is the unsigned big-endian value of bytes 0-5 (range
\* 0..2^48-1, here as two 24-bit halves), Sequence() that of bytes 6-7 and
\* Random() that of bytes 8-9 (each 0..65535), so the three accessors
\* determine all 10 bytes; for the all-0xff ID they are 281474976710655
\* (= 16777215 * 2^24 + 16777215), 65535 and 65535.
C15_AccessorsBigEndian ==
  /\ call.op = "Accessors" =>
       LET t == call.parts[1]
           s == call.parts[2]
           r == call.parts[3]
       IN  /\ t[1] \in 0..16777215 /\ t[2] \in 0..16777215
           /\ s \in 0..65535 /\ r \in 0..65535
           /\ call.a = Bytes3(t[1]) \o Bytes3(t[2]) \o Bytes2(s) \o Bytes2(r)
           /\ call.a = maxID => call.parts = << <<16777215, 16777215>>, 65535, 65535 >>
  /\ Timestamp(maxID) = <<16777215, 16777215>>
  /\ Sequence(maxID) = 65535 /\ Random(maxID) = 65535

\* the accessors were applied to an ID that differs from the sample ID in
\* the high byte of its sequence, on which the three values differ
C15_Witness ==
  /\ call.op = "Accessors"
  /\ call.a \in Edits(sampleID)
  /\ call.a[7] # sampleID[7]
  /\ call.parts[2] > 255 /\ call.parts[2] # call.parts[3]
  /\ call.parts[1][1] # call.parts[1][2]

\* C16: FromBytes(b) returns the nil ID and ErrInvalidID whenever len(b) is
\* not 10, and for len(b) = 10 an ID whose bytes equal b and a nil error, so
\* FromBytes(id.Bytes()) = id for every ID.
C16_FromBytesChecksLength ==
  call.op = "FromBytes" =>
    IF Len(call.text) # 10
    THEN call.id = nilID /\ call.err = ErrInvalidID
    ELSE /\ call.err = NoErr
         /\ \A i \in 1..10 : call.id[i] = call.text[i]
         /\ FromBytes(Bytes(call.id)) = [id |-> call.id, err |-> NoErr]

\* FromBytes was given 11 bytes, the first 10 of them non-zero, and
\* returned the error
C16_Witness ==
  /\ call.op = "FromBytes"
  /\ Len(call.text) = 11
  /\ \A i \in 1..10 : call.text[i] # 0
  /\ call.err = ErrInvalidID

\* the number of times x occurs in the sequence s
Count(s, x) == Cardinality({i \in 1..Len(s) : s[i] = x})

\* C19: after Sort(ids) the slice holds the same multiset of IDs as before
\* the call and is in non-decreasing order under Compare: for every i < j,
\* ids[i].Compare(ids[j]) <= 0.
C19_SortOrdersSlice ==
  call.op = "Sort" =>
    /\ Len(call.sorted) = Len(call.ids)
    /\ \A i \in 1..Len(call.ids) :
         Count(call.sorted, call.ids[i]) = Count(call.ids, call.ids[i])
    /\ \A i, j \in 1..Len(call.sorted) :
         i < j => Compare(call.sorted[i], call.sorted[j]) <= 0

\* a slice of three IDs was sorted whose first two differ only in their
\* random bytes and whose last is smaller than both
C19_Witness ==
  /\ call.op = "Sort"
  /\ Len(call.ids) = 3
  /\ call.ids[1] # call.ids[2]
  /\ Compare(call.ids[1], call.ids[2]) = 0
  /\ Compare(call.ids[2], call.ids[3]) = 1
  /\ call.sorted[1] = call.ids[3]

\* C20: MarshalJSON returns the literal null exactly when the ID is the nil
\* ID and otherwise the 16-character encoding in double quotes, always with
\* a nil error; UnmarshalJSON of null sets the receiver to the nil ID; and
\* for every ID x, UnmarshalJSON(MarshalJSON(x)) restores x.
C20_JSONRoundTrip ==
  /\ call.op = "MarshalJSON" =>
       /\ call.err = NoErr
       /\ (call.text = nullText) <=> (call.a = nilID)
       /\ call.a # nilID => call.text = <<34>> \o String(call.a) \o <<34>>
       /\ \A x \in BaseIDs :
            UnmarshalJSON(x, call.text) = [id |-> call.a, err |-> NoErr]
  /\ (call.op = "UnmarshalJSON" /\ call.text = nullText) =>
       (call.id = nilID /\ call.err = NoErr)

\* MarshalJSON was applied to an ID that is not nil but has the timestamp
\* and the sequence of the nil ID, and gave 18 bytes
C20_Witness ==
  /\ call.op = "MarshalJSON"
  /\ call.a # nilID
  /\ SubSeq(call.a, 1, 8) = SubSeq(nilID, 1, 8)
  /\ Len(call.text) = 18
  /\ call.text[1] = 34 /\ call.text[18] = 34

\* C21: UnmarshalJSON returns ErrInvalidID for every input that is neither
\* the literal null nor a 16-character alphabet string enclosed in double
\* quotes; every JSON number and every input whose first or last byte is
\* not a double quote is rejected.
C21_RejectsAllButQuotedIDs ==
  (/\ call.op = "UnmarshalJSON"
   /\ call.text # nullText
   /\ ~ (/\ Len(call.text) = 18
         /\ call.text[1] = 34 /\ call.text[18] = 34
         /\ \A i \in 2..17 : call.text[i] \in Alphabet))
  => call.err = ErrInvalidID

\* C27: for every 16-byte input whose bytes are all in the alphabet,
\* decode's self-check on the last character passes, so UnmarshalText does
\* not reach its reset-to-nil failure branch and returns a nil error; the
\* self-check can only fail for a last character outside the alphabet.
C27_SelfCheckPasses ==
  (call.op = "UnmarshalText" /\ Len(call.text) = 16) =>
    /\ decode(call.pre, call.text).ok <=> call.text[16] \in Alphabet
    /\ (\A i \in 1..16 : call.text[i] \in Alphabet) =>
         /\ call.err = NoErr
         /\ call.id = decode(call.pre, call.text).id

\* UnmarshalText accepted an alphabet string, on a receiver that was not
\* nil, whose last character has its top bit set and whose last-but-one
\* character carries bits of byte 9
C27_Witness ==
  /\ call.op = "UnmarshalText"
  /\ Len(call.text) = 16
  /\ \A i \in 1..16 : call.text[i] \in Alphabet
  /\ dec[call.text[16]] >= 16
  /\ dec[call.text[15]] % 8 # 0
  /\ call.pre # nilID
  /\ call.err = NoErr

\* C28: when UnmarshalText rejects its input because of a wrong length or
\* a character outside the alphabet, it leaves the receiver exactly as it
\* was before the call; Scan with a value of an unsupported type likewise
\* leaves the receiver unchanged.
C28_RejectionKeepsReceiver ==
  /\ (/\ call.op = "UnmarshalText"
      /\ \/ Len(call.text) # 16
         \/ \E i \in 1..Len(call.text) : call.text[i] \notin Alphabet)
     => (call.id = call.pre /\ call.err = ErrInvalidID)
  /\ (call.op = "Scan" /\ call.kind \notin {"string", "[]uint8", "nil"})
     => (call.id = call.pre /\ call.err \notin {NoErr, ErrInvalidID})

\* UnmarshalText, on a receiver of ten 0xff bytes, rejected 16 characters
\* of which only the last is outside the alphabet
C28_Witness ==
  /\ call.op = "UnmarshalText"
  /\ call.pre = maxID
  /\ Len(call.text) = 16
  /\ \A i \in 1..15 : call.text[i] \in Alphabet
  /\ call.text[16] \notin Alphabet
  /\ call.err = ErrInvalidID
  /\ call.id = maxID

(***************************************************************************)
(* Further claims about the generator.                                     *)
(***************************************************************************)
\* C13: New never returns the nil ID: every ID returned by New has
\* IsNil() false, whatever the clock reads (time zero at the first call
\* included) and whatever the two random bytes are (both zero included).
C13_NewNeverNil ==
  \A i \in Returned : ~ IsNil(issued[i].id) /\ ~ IsZero(issued[i].id)

\* the first call of New read a clock that had not passed the epoch, drew
\* two zero random bytes and returned the ID with sequence 1
C13_Witness ==
  /\ 1 \in Returned
  /\ issued[1].milli = 0
  /\ Random(issued[1].id) = 0
  /\ issued[1].id = [nilID EXCEPT ![8] = 1]

\* the calls of caller p for which getTS has returned and New has not
Pending(p) == {i \in 1..Len(issued) : issued[i].caller = p /\ issued[i].id = <<>>}

\* C14: each New call invokes the generator exactly once and packs its
\* result so that (timestamps below 2^48) the ID's Timestamp() is the
\* generator's milli and its Sequence() the generator's seq, bytes 0-5 and
\* 6-7 big-endian, while bytes 8-9 come only from the random source.
C14_PacksGeneratorResult ==
  /\ \A i \in Returned :
       /\ Len(issued[i].id) = rawLen
       /\ Timestamp(issued[i].id)
            = <<issued[i].milli \div 16777216, issued[i].milli % 16777216>>
       /\ Sequence(issued[i].id) = issued[i].seq
       /\ SubSeq(issued[i].id, 9, 10) \in RandPairs
  /\ \A p \in Callers :
       /\ Cardinality(Pending(p)) = IF pc[p] = "pack" THEN 1 ELSE 0
       /\ \A i \in Pending(p) : ts[p] = <<issued[i].milli, issued[i].seq>>

\* New returned an ID whose timestamp and sequence each fill two bytes,
\* with non-zero random bytes, while another call is between getTS and the
\* return of New
C14_Witness ==
  /\ \E i \in Returned :
       /\ issued[i].milli > 255 /\ issued[i].seq > 255
       /\ issued[i].id[5] # 0 /\ issued[i].id[6] # 0
       /\ issued[i].id[7] # 0 /\ issued[i].id[8] # 0
       /\ SubSeq(issued[i].id, 9, 10) = <<90, 199>>
  /\ \E p \in Callers : pc[p] = "pack"

\* C17: for a non-negative clock, the millisecond timestamp a getTS call
\* returns is greater than or equal to the wall-clock millisecond
\* (nanoseconds / 1,000,000) the same call read from the clock: in the step
\* from the clock read to the values the call returns, milli does not end
\* below the clock's millisecond.
C17_NotBeforeClock ==
  [][\A p \in Callers :
       (pc[p] = "compare" /\ pc'[p] = "store" /\ nano[p] >= 0)
         => milli'[p] >= ClockMilli(nano[p])]_vars

\* a call has read the clock in a millisecond after the first one, for
\* which an earlier call has already returned a later value, so that its
\* result will be the value after lastTime
C17_Witness ==
  \E p \in Callers :
    /\ pc[p] = "compare"
    /\ ClockMilli(nano[p]) > 0
    /\ Stalled(now[p], lastTime)
    /\ now[p] < lastTime
    /\ TickMilli(lastTime + 1) = ClockMilli(nano[p])

\* C18: New cannot fail and cannot deadlock: a caller that holds the
\* generator lock is inside getTS and releases the lock when getTS returns,
\* so under fair lock scheduling every New call made by any of the
\* concurrent callers eventually returns.
C18_EveryCallReturns ==
  /\ [](\A p \in Callers : timeMu = p <=> pc[p] \in InGetTS)
  /\ \A p \in Callers : (pc[p] # "idle") ~> (pc[p] = "idle")

\* a caller is blocked in timeMu.Lock() while another caller holds the lock
\* and is about to store lastTime and return from getTS
C18_Witness ==
  \E p, q \in Callers :
    /\ q # p
    /\ pc[p] = "lock"
    /\ timeMu = q /\ pc[q] = "store"

\* C22: in each getTS call, with now = milli<<12 + seq derived from the
\* clock read: if now is greater than lastTime the call returns exactly the
\* clock-derived (milli, seq); otherwise it returns (t >> 12, t & 0xFFF)
\* for t = lastTime + 1; in both cases lastTime after the call is the
\* returned milli * 4096 + the returned seq.
C22_ClockOrNextTick ==
  [][\A p \in Callers :
       /\ (pc[p] = "compare" /\ pc'[p] = "store") =>
            LET cm == GoDiv(nano[p], 1000000)
                cs == Shr(nano[p] - cm * 1000000, 8)
                t == lastTime + 1
            IN  IF cm * 4096 + cs > lastTime
                THEN milli'[p] = cm /\ seq'[p] = cs
                ELSE milli'[p] = t \div 4096 /\ seq'[p] = t % 4096
       /\ (pc[p] = "store" /\ pc'[p] = "pack") =>
            /\ lastTime' = milli[p] * 4096 + seq[p]
            /\ ts'[p] = <<milli[p], seq[p]>>]_vars

\* a call found the clock not past lastTime, the value another call had
\* read from the clock in millisecond 2147, and is about to return the
\* value after it
C22_Witness ==
  \E p \in Callers :
    /\ pc[p] = "store"
    /\ lastTime = 2147 * 4096 + 1889
    /\ now[p] = lastTime + 1
    /\ milli[p] = 2147 /\ seq[p] = 1890
    /\ issued[Len(issued)].caller # p

\* C23: while the clock stays frozen at one instant in millisecond m,
\* successive getTS calls return consecutive combined values (each the
\* previous one plus 1), so at most 4096 calls return timestamp m and the
\* following calls return a timestamp greater than m.
C23_FrozenClockTicks ==
  /\ [](tally.same <= 4096)
  /\ [](tally.calls > tally.same => tally.milli > ClockMilli(tally.clock))
  /\ [][(tally.calls >= 1 =>
            tally'.milli * 4096 + tally'.seq = tally.milli * 4096 + tally.seq + 1)
         /\ (tally'.milli # ClockMilli(tally.clock) => tally'.same = tally.same)]_vars

\* with the clock frozen at the first nanosecond of a millisecond, 4096
\* calls have returned that millisecond and the 4097th the next one
C23_Witness ==
  /\ tally.calls = 4097
  /\ tally.same = 4096
  /\ ClockSeq(tally.clock) = 0
  /\ tally.milli = ClockMilli(tally.clock) + 1
  /\ tally.seq = 0

\* C24: at most one caller at a time is between the clock read and the
\* store to lastTime: the clock read, the comparison with lastTime and the
\* update of lastTime of one getTS call are never interleaved with those of
\* another call, while the byte packing and the random fill of New run
\* with the lock not held.
C24_CriticalSectionExclusive ==
  /\ Cardinality({p \in Callers : pc[p] \in InGetTS}) <= 1
  /\ \A p \in Callers : pc[p] \in InGetTS <=> timeMu = p
  /\ \A p \in Callers : pc[p] = "pack" => timeMu # p

\* one caller is packing its ID while another holds the lock and has read
\* the clock, and a third call has been completed before
C24_Witness ==
  /\ \E p, q \in Callers :
       /\ p # q
       /\ pc[p] = "pack"
       /\ pc[q] = "compare" /\ timeMu = q
  /\ Returned # {}

\* C29: for any two IDs a and b returned by New (timestamps below 2^48),
\* a.Compare(b) has the sign of the comparison of their generator values
\* milli*4096 + seq, so the ID whose generator call came later compares
\* greater.
\* Stated on the step that returns an ID: the new ID compares with every
\* ID returned so far (and with itself), in both directions, as the
\* generator values do.
C29_CompareFollowsGenerator ==
  [][(Len(issued') = Len(issued) /\ issued' # issued) =>
       \A i \in {k \in 1..Len(issued) : issued[k].id # issued'[k].id} :
         \A j \in Returned \cup {i} :
           LET a == Combined(issued'[i])
               b == Combined(issued'[j])
               s == IF a < b THEN -1 ELSE IF a > b THEN 1 ELSE 0
           IN  /\ issued'[i].id # <<>>
               /\ Compare(issued'[i].id, issued'[j].id) = s
               /\ Compare(issued'[j].id, issued'[i].id) = 0 - s
               /\ i < j => s = -1
               /\ j < i => s = 1]_vars

\* two IDs were returned of which the earlier has the larger sequence and
\* the smaller timestamp, and a third differs from its predecessor in the
\* sequence only
C29_Witness ==
  /\ \E i, j \in Returned :
       /\ i < j
       /\ issued[i].seq > issued[j].seq
       /\ issued[i].milli < issued[j].milli
  /\ \E i, j \in Returned :
       /\ i < j
       /\ issued[i].milli = issued[j].milli
       /\ issued[i].seq > 255

\* C30: after k completed getTS calls, with any clock readings, lastTime is
\* at least k and at most max(0, the largest clock-derived value
\* milli<<12 + seq read so far) + k.
C30_AheadByAtMostCalls ==
  /\ tally.calls <= lastTime
  /\ lastTime <= tally.maxNow + tally.calls

\* four calls are done, the first of which read a clock above 0 that the
\* later ones did not exceed, the last one reading an earlier clock:
\* lastTime is the largest clock-derived value plus 3
C30_Witness ==
  /\ tally.calls = 4
  /\ tally.maxNow > 0
  /\ ClockNow(tally.clock) < tally.maxNow
  /\ lastTime = tally.maxNow + tally.calls - 1

\* C25 as stated: the sequence number returned by getTS is between 0 and
\* 3906 (nanoPerMilli >> 8) on every call.
C25_SeqWithinClockRange ==
  tally.calls >= 1 => tally.seq \in 0..3906

\* C25 amended: the sequence number derived from a non-negative clock
\* reading is between 0 and 3906; getTS returns it when the clock-derived
\* value is above lastTime, and a returned sequence above 3906 (up to 4095)
\* is that of lastTime + 1, not of the clock.
C25_ClockSeqWithinRange ==
  tally.calls >= 1 =>
    /\ tally.clock >= 0 => ClockSeq(tally.clock) \in 0..3906
    /\ tally.seq \in 0..4095
    /\ tally.seq > 3906 =>
         /\ tally.milli * 4096 + tally.seq > ClockNow(tally.clock)
         /\ tally.milli * 4096 + tally.seq = lastTime

\* a call read the last nanosecond of millisecond 0, whose sequence 3906
\* an earlier call had returned, and returned sequence 3907
C25_Witness ==
  /\ tally.calls >= 2
  /\ tally.clock = 999999
  /\ ClockSeq(tally.clock) = 3906
  /\ tally.milli = 0 /\ tally.seq = 3907

\* C26: after any sequence of calls with any clock readings, the sequence
\* returned by getTS is within 0..4095 (fits the 12-bit field) and the
\* returned milli is the combined value shifted right by 12, so distinct
\* combined values give distinct (milli, seq) pairs.
C26_SeqFitsTwelveBits ==
  tally.calls >= 1 =>
    /\ 0 <= tally.seq /\ tally.seq <= 4095
    /\ tally.milli = Shr(lastTime, 12)
    /\ tally.seq = lastTime - tally.milli * 4096

\* after a reading in millisecond 2147 was returned, a call read a clock
\* before the epoch, whose derived sequence is negative, and returned the
\* next value of millisecond 2147
C26_Witness ==
  /\ tally.calls >= 2
  /\ tally.clock < 0
  /\ ClockSeq(tally.clock) < 0
  /\ tally.milli = 2147
  /\ tally.seq > 1889
====
